---- MODULE Spec2Model ----
(***************************************************************************)
(* A model of the watermark-image synthesis of xwatermark (src/main.go):   *)
(* extractUsername, createWatermarkImage (canvas sizing, transparent fill, *)
(* tiling loop with DrawString) and rotateAndCrop (inverse-mapping         *)
(* resampling).                                                            *)
(*                                                                         *)
(* Floating point.  The code computes its coordinates in float64.  For the *)
(* angles 0, 90, 180, 270 and 360 degrees every cosine and sine the code   *)
(* takes is either exactly +1/-1, exactly 0, or a tiny residue of the      *)
(* argument reduction (cos(pi/2) = 6.1e-17, sin(pi) = 1.2e-16, ...).  A    *)
(* float64 value of the computation is therefore a half-integer plus a     *)
(* tiny offset, and is modelled as a pair <<hv, off>> that stands for      *)
(*        hv / 2  +  (off / OffDen) * 2^-55 .                              *)
(* Round implements IEEE round-to-nearest-even on that representation, so  *)
(* the in-bounds tests and the int() truncations of the code are decided   *)
(* as the float64 arithmetic decides them (each product and each sum       *)
(* rounded on its own, as on amd64, where Go fuses no multiply-add).       *)
(***************************************************************************)
EXTENDS Integers, Sequences, FiniteSets, TLC

VARIABLES
    pc,              \* position in the modelled call
    username,        \* argument of createWatermarkImage / extractUsername
    watermarkText,   \* the text handed to DrawString
    screenWidth,     \* global screenWidth
    screenHeight,    \* global screenHeight
    watermarkConfig, \* global watermarkConfig (angle, imageRotation, spacingX, spacingY)
    canvasSize,      \* local canvasSize of createWatermarkImage
    img,             \* the canvas: [w, h, pix]
    tx, ty,          \* loop variables x, y of the tiling loop
    anchors,         \* history: the anchors the tiling loop visited, in order
    draws,           \* history: per visited anchor, the DrawString point or <<>>
    covered,         \* history: canvas pixels some DrawString call covered
    rcArgs,          \* arguments of the running rotateAndCrop call
    dst,             \* local dst of rotateAndCrop
    rx, ry,          \* loop variables x, y of rotateAndCrop
    visits,          \* history: how often each destination pixel was visited
    writes,          \* history: how often each destination pixel was written
    gaps,            \* history: destination pixels whose source fell outside
    rotateCalls,     \* history: number of rotateAndCrop calls made
    final            \* the image createWatermarkImage returns

vars == <<pc, username, watermarkText, screenWidth, screenHeight,
          watermarkConfig, canvasSize, img, tx, ty, anchors, draws, covered,
          rcArgs, dst, rx, ry, visits, writes, gaps, rotateCalls, final>>

(***************************************************************************)
(* Bounds of the model.                                                    *)
(***************************************************************************)
MaxNameLen == 4      \* longest account name tried
MaxSide    == 8      \* largest screen side tried for the canvas-size formula
MaxDim     == 3      \* largest screen side the whole pipeline is run on
MaxSpacing == 3      \* largest configured spacing
MaxStall   == 3      \* iterations modelled of a tiling loop that cannot end
MaxCanvas  == 3      \* largest canvas side handed to rotateAndCrop alone
MaxTarget  == 3      \* largest target side handed to rotateAndCrop alone
GlyphW     == 2      \* width in pixels of the area one DrawString covers
GlyphH     == 1      \* height in pixels of the area one DrawString covers

(***************************************************************************)
(* Integer helpers.                                                        *)
(***************************************************************************)
Abs(n) == IF n < 0 THEN -n ELSE n

Sgn(n) == IF n > 0 THEN 1 ELSE IF n < 0 THEN -1 ELSE 0

\* Go's integer division: truncation towards zero.
GoDiv(a, b) == Sgn(a) * Sgn(b) * (Abs(a) \div Abs(b))

RECURSIVE SqrtSearch(_, _, _)
SqrtSearch(n, lo, hi) ==
    IF lo >= hi THEN lo
    ELSE LET mid == (lo + hi + 1) \div 2
         IN  IF mid * mid <= n THEN SqrtSearch(n, mid, hi)
                               ELSE SqrtSearch(n, lo, mid - 1)

\* int(math.Sqrt(float64(n))): the integer part of the square root.
IntSqrt(n) == SqrtSearch(n, 0, 46340)

(***************************************************************************)
(* float64 arithmetic on values  hv/2 + (off/OffDen) * 2^-55.              *)
(***************************************************************************)
\* Denominator of the tiny offsets: the residues below are given to five
\* decimal places of 2^-53, and 2^-53 is four units of 2^-55.
OffDen == 100000 \div 2

Angles == {0, 90, 180, 270, 360}

\* math.Cos(deg * math.Pi / 180.0) as <<unit, residue>>: the value is
\* unit + residue * 10^-5 * 2^-53.
\* cos(pi/2) = 6.123e-17, cos(3pi/2) = -1.837e-16.
Cos(deg) ==
    CASE deg = 0   -> <<1, 0>>
      [] deg = 90  -> <<0, 55153>>
      [] deg = 180 -> <<-1, 0>>
      [] deg = 270 -> <<0, -165459>>
      [] deg = 360 -> <<1, 0>>

\* math.Sin(deg * math.Pi / 180.0): sin(pi) = 1.225e-16, sin(2pi) = -2.449e-16.
Sin(deg) ==
    CASE deg = 0   -> <<0, 0>>
      [] deg = 90  -> <<1, 0>>
      [] deg = 180 -> <<0, 110306>>
      [] deg = 270 -> <<-1, 0>>
      [] deg = 360 -> <<0, -220613>>

\* cos(-rad) = cos(rad) and sin(-rad) = -sin(rad), exactly, in math.Cos/math.Sin.
CosNeg(deg) == Cos(deg)

SinNeg(deg) == <<-Sin(deg)[1], -Sin(deg)[2]>>

RECURSIVE Pow2Le(_)
\* The largest power of two that is at most a (a >= 1).
Pow2Le(a) == IF a < 2 THEN 1 ELSE 2 * Pow2Le(a \div 2)

\* n/d rounded to the nearest integer, ties to the even one (n >= 0, d > 0).
RoundHalfEven(n, d) ==
    LET q == n \div d
        r == n - q * d
    IN  IF 2 * r < d THEN q
        ELSE IF 2 * r > d THEN q + 1
        ELSE IF q % 2 = 0 THEN q ELSE q + 1

\* The float64 nearest to hv/2 + off/OffDen units.  Around |hv/2| in
\* [2^e, 2^(e+1)) neighbouring doubles are 2^(e-52) apart, which is
\* 4 * Pow2Le(|hv|) units; just below a power of two they are half as far
\* apart.  Next to 0 the small offsets are representable as they are.
Round(v) ==
    IF v[1] = 0 \/ v[2] = 0 THEN v
    ELSE LET a      == Abs(v[1])
             p      == Pow2Le(a)
             toward == Sgn(v[2]) # Sgn(v[1])
             s      == IF toward /\ a = p THEN 2 * p ELSE 4 * p
             j      == RoundHalfEven(Abs(v[2]), OffDen * s)
         IN  <<v[1], Sgn(v[2]) * j * s * OffDen>>

\* float64(n) for an integer n, and float64(n)/2.
FromInt(n) == <<2 * n, 0>>

HalfOf(n) == <<n, 0>>

\* a * t for a float a that is an exact half-integer (v[2] = 0) and t a
\* cosine or sine as given by Cos and Sin.
FMul(v, t) == <<(v[1] * t[1]), (v[1] * t[2])>>

FAdd(v, w) == Round(<<v[1] + w[1], v[2] + w[2]>>)

FSub(v, w) == Round(<<v[1] - w[1], v[2] - w[2]>>)

\* v >= 0
FGe0(v) == v[1] > 0 \/ (v[1] = 0 /\ v[2] >= 0)

\* v < float64(n)
FLt(v, n) == v[1] < 2 * n \/ (v[1] = 2 * n /\ v[2] < 0)

\* Mutant of FTrunc: rounding to the nearest integer, int(v + 0.5).
FNearest(v) ==
    LET r == Round(<<v[1] + 1, v[2]>>)
    IN  IF r[1] % 2 = 0
        THEN IF r[2] < 0 /\ r[1] > 0 THEN r[1] \div 2 - 1 ELSE r[1] \div 2
        ELSE (r[1] - 1) \div 2

\* int(v) for v >= 0: truncation.
FTrunc(v) ==
    IF v[1] % 2 = 0
    THEN IF v[2] < 0 /\ v[1] > 0 THEN v[1] \div 2 - 1 ELSE v[1] \div 2
    ELSE (v[1] - 1) \div 2

(***************************************************************************)
(* extractUsername                                                         *)
(***************************************************************************)
\* Account names are sequences of characters over this alphabet.
Alphabet == {"u", "\\", "@"}

\* strings.LastIndex(s, c): 0-based index of the last c, or -1.
LastIndex(s, c) ==
    LET hits == {i \in 1..Len(s) : s[i] = c}
    IN  IF hits = {} THEN -1
        ELSE (CHOOSE i \in hits : \A k \in hits : k <= i) - 1

\* strings.Index(s, c): 0-based index of the first c, or -1.
Index(s, c) ==
    LET hits == {i \in 1..Len(s) : s[i] = c}
    IN  IF hits = {} THEN -1
        ELSE (CHOOSE i \in hits : \A k \in hits : i <= k) - 1

extractUsername(fullUsername) ==
    LET i == LastIndex(fullUsername, "\\")
        k == Index(fullUsername, "@")
    IN  IF i >= 0 THEN SubSeq(fullUsername, i + 2, Len(fullUsername))
        ELSE IF k >= 0 THEN SubSeq(fullUsername, 1, k)
        ELSE fullUsername

\* watermarkConfig.spaceCount
spaceCount == 5

\* fmt.Sprintf("CompanyName %s%s", extractUsername(username), spaces)
WatermarkText(name) ==
    <<"CompanyName ">> \o extractUsername(name) \o [i \in 1..spaceCount |-> " "]

(***************************************************************************)
(* Canvas size                                                             *)
(***************************************************************************)
\* Mutant of CanvasSide: the factor 5/4 applied under the square root.
CanvasSideScaledInside(width, height) ==
    IntSqrt(((width * width + height * height) * 25) \div 16)

\* canvasSize := int(math.Sqrt(float64(width*width+height*height))) * 5 / 4
CanvasSide(width, height) ==
    GoDiv(IntSqrt(width * width + height * height) * 5, 4)

(***************************************************************************)
(* Images                                                                  *)
(***************************************************************************)
\* image.Transparent, and the zero value of a pixel of image.NewRGBA.
Transparent == 0

\* A pixel DrawString has covered with the source colour image.Black.
Opaque == 255

Pixels(w, h) == (0..(w - 1)) \X (0..(h - 1))

\* image.NewRGBA(image.Rect(0, 0, w, h)): every pixel zero.
NewRGBA(w, h) == [w |-> w, h |-> h, pix |-> [p \in Pixels(w, h) |-> 0]]

NoImage == NewRGBA(0, 0)

\* m.At(x, y): the pixel, or the zero colour outside the bounds of m.
At(m, q) == IF q \in Pixels(m.w, m.h) THEN m.pix[q] ELSE 0

\* Mutant of SetPixel: x and y exchanged.
SetPixelTransposed(m, q, c) ==
    IF <<q[2], q[1]>> \in Pixels(m.w, m.h) THEN [m EXCEPT !.pix[<<q[2], q[1]>>] = c] ELSE m

\* m.Set(x, y, c): no effect outside the bounds of m.
SetPixel(m, q, c) == IF q \in Pixels(m.w, m.h) THEN [m EXCEPT !.pix[q] = c] ELSE m

\* Mutant of ClearColour: the canvas filled with an opaque colour.
ClearColourOpaque == Opaque

\* The loop img.Set(x, y, image.Transparent) over the bounds of the canvas.
ClearColour == Transparent

ClearCanvas(m) == [m EXCEPT !.pix = [p \in Pixels(m.w, m.h) |-> ClearColour]]

(***************************************************************************)
(* rotateAndCrop                                                           *)
(***************************************************************************)
\* Mutant of OldX: the centre of the target added instead of the centre of
\* the canvas.
OldXTargetCentre(a, x, y) ==
    LET dx == FSub(FromInt(x), HalfOf(a.targetWidth))
        dy == FSub(FromInt(y), HalfOf(a.targetHeight))
    IN  FAdd(FSub(FMul(dx, CosNeg(a.angle)), FMul(dy, SinNeg(a.angle))),
             HalfOf(a.targetWidth))

\* oldX := dx*math.Cos(-rad) - dy*math.Sin(-rad) + cx
OldX(a, x, y) ==
    LET dx == FSub(FromInt(x), HalfOf(a.targetWidth))
        dy == FSub(FromInt(y), HalfOf(a.targetHeight))
    IN  FAdd(FSub(FMul(dx, CosNeg(a.angle)), FMul(dy, SinNeg(a.angle))),
             HalfOf(a.img.w))

\* oldY := dx*math.Sin(-rad) + dy*math.Cos(-rad) + cy
OldY(a, x, y) ==
    LET dx == FSub(FromInt(x), HalfOf(a.targetWidth))
        dy == FSub(FromInt(y), HalfOf(a.targetHeight))
    IN  FAdd(FAdd(FMul(dx, SinNeg(a.angle)), FMul(dy, CosNeg(a.angle))),
             HalfOf(a.img.h))

\* if oldX >= 0 && oldX < w && oldY >= 0 && oldY < h
InSource(a, x, y) ==
    LET oldX == OldX(a, x, y)
        oldY == OldY(a, x, y)
    IN  FGe0(oldX) /\ FLt(oldX, a.img.w) /\ FGe0(oldY) /\ FLt(oldY, a.img.h)

\* (int(oldX), int(oldY))
SourcePixel(a, x, y) == <<FTrunc(OldX(a, x, y)), FTrunc(OldY(a, x, y))>>

\* The image a whole call rotateAndCrop(img, angle, targetWidth, targetHeight)
\* returns.
RotateAndCropResult(a) ==
    [w   |-> a.targetWidth,
     h   |-> a.targetHeight,
     pix |-> [p \in Pixels(a.targetWidth, a.targetHeight) |->
                IF InSource(a, p[1], p[2])
                THEN At(a.img, SourcePixel(a, p[1], p[2]))
                ELSE 0]]

NoArgs == [img |-> NoImage, angle |-> 0, targetWidth |-> 0, targetHeight |-> 0]

ZeroCount(w, h) == [p \in Pixels(w, h) |-> 0]

\* Entry of rotateAndCrop: dst := image.NewRGBA(...), y := 0, x := 0.
RCEnter ==
    /\ pc = "rc_call"
    /\ dst' = NewRGBA(rcArgs.targetWidth, rcArgs.targetHeight)
    /\ rx' = 0
    /\ ry' = 0
    /\ visits' = ZeroCount(rcArgs.targetWidth, rcArgs.targetHeight)
    /\ writes' = ZeroCount(rcArgs.targetWidth, rcArgs.targetHeight)
    /\ gaps' = {}
    /\ pc' = "rc_loop"
    /\ UNCHANGED <<username, watermarkText, screenWidth, screenHeight,
                   watermarkConfig, canvasSize, img, tx, ty, anchors, draws,
                   covered, rcArgs, rotateCalls, final>>

\* The bound of the inner loop: x < targetWidth.
RowDone(x, targetWidth) == x >= targetWidth

\* One iteration of the inner loop over x, with the step of the outer loop
\* over y when the row is finished.
RCPixel ==
    /\ pc = "rc_loop"
    /\ ry < rcArgs.targetHeight
    /\ ~RowDone(rx, rcArgs.targetWidth)
    /\ visits' = [visits EXCEPT ![<<rx, ry>>] = @ + 1]
    /\ IF InSource(rcArgs, rx, ry)
       THEN /\ dst' = SetPixel(dst, <<rx, ry>>,
                               At(rcArgs.img, SourcePixel(rcArgs, rx, ry)))
            /\ writes' = [writes EXCEPT ![<<rx, ry>>] = @ + 1]
            /\ gaps' = gaps
       ELSE /\ gaps' = gaps \cup {<<rx, ry>>}
            /\ UNCHANGED <<dst, writes>>
    /\ IF RowDone(rx + 1, rcArgs.targetWidth)
       THEN rx' = 0 /\ ry' = ry + 1
       ELSE rx' = rx + 1 /\ ry' = ry
    /\ UNCHANGED <<pc, username, watermarkText, screenWidth, screenHeight,
                   watermarkConfig, canvasSize, img, tx, ty, anchors, draws,
                   covered, rcArgs, rotateCalls, final>>

\* The outer loop ends (y >= targetHeight): return dst.
RCReturn ==
    /\ pc = "rc_loop"
    /\ ry >= rcArgs.targetHeight
    /\ pc' = "rc_ret"
    /\ UNCHANGED <<username, watermarkText, screenWidth, screenHeight,
                   watermarkConfig, canvasSize, img, tx, ty, anchors, draws,
                   covered, rcArgs, dst, rx, ry, visits, writes, gaps,
                   rotateCalls, final>>

(***************************************************************************)
(* createWatermarkImage                                                    *)
(***************************************************************************)
\* Mutant of Pitch: the configured spacing without the factor 4/3.
PitchPlain(spacing) == spacing

\* spacingX := watermarkConfig.spacingX * 4 / 3 (and spacingY alike)
Pitch(spacing) == GoDiv(spacing * 4, 3)

\* startX := -canvasSize / 2 (startY alike)
StartOf(size) == GoDiv(-size, 2)

\* endX := canvasSize * 3 / 2 (endY alike)
EndOf(size) == GoDiv(size * 3, 2)

\* rotX := float64(x)*math.Cos(angle) - float64(y)*math.Sin(angle), then
\* rotX += float64(canvasSize) / 2
RotX(deg, size, x, y) ==
    FAdd(FSub(FMul(FromInt(x), Cos(deg)), FMul(FromInt(y), Sin(deg))),
         HalfOf(size))

\* rotY := float64(x)*math.Sin(angle) + float64(y)*math.Cos(angle), then
\* rotY += float64(canvasSize) / 2
RotY(deg, size, x, y) ==
    FAdd(FAdd(FMul(FromInt(x), Sin(deg)), FMul(FromInt(y), Cos(deg))),
         HalfOf(size))

\* if rotX >= 0 && rotX < float64(canvasSize) && rotY >= 0 && rotY < float64(canvasSize)
OnCanvas(deg, size, x, y) ==
    LET rotX == RotX(deg, size, x, y)
        rotY == RotY(deg, size, x, y)
    IN  FGe0(rotX) /\ FLt(rotX, size) /\ FGe0(rotY) /\ FLt(rotY, size)

\* pt := freetype.Pt(int(rotX), int(rotY))
DrawPoint(deg, size, x, y) ==
    <<FTrunc(RotX(deg, size, x, y)), FTrunc(RotY(deg, size, x, y))>>

\* The pixels c.DrawString(watermarkText, pt) covers: the text runs to the
\* right of and above its baseline point, clipped to the canvas (c.SetClip).
Footprint(pt, size) ==
    {q \in Pixels(size, size) :
        /\ q[1] >= pt[1] /\ q[1] < pt[1] + GlyphW
        /\ q[2] <= pt[2] /\ q[2] > pt[2] - GlyphH}

DrawString(m, pt) ==
    [m EXCEPT !.pix = [q \in Pixels(m.w, m.h) |->
                          IF q \in Footprint(pt, m.w) THEN Opaque ELSE m.pix[q]]]

\* A tiling loop whose step is not positive never reaches its end bound.
Degenerate == Pitch(watermarkConfig.spacingX) < 1 \/ Pitch(watermarkConfig.spacingY) < 1

\* canvasSize := ...; img := image.NewRGBA(image.Rect(0, 0, canvasSize, canvasSize))
Alloc ==
    /\ pc = "entry"
    /\ canvasSize' = CanvasSide(screenWidth, screenHeight)
    /\ img' = NewRGBA(canvasSize', canvasSize')
    /\ pc' = "clear"
    /\ UNCHANGED <<username, watermarkText, screenWidth, screenHeight,
                   watermarkConfig, tx, ty, anchors, draws, covered, rcArgs,
                   dst, rx, ry, visits, writes, gaps, rotateCalls, final>>

\* The loops that set every pixel of the canvas to image.Transparent.
Clear ==
    /\ pc = "clear"
    /\ img' = ClearCanvas(img)
    /\ pc' = "setup"
    /\ UNCHANGED <<username, watermarkText, screenWidth, screenHeight,
                   watermarkConfig, canvasSize, tx, ty, anchors, draws,
                   covered, rcArgs, dst, rx, ry, visits, writes, gaps,
                   rotateCalls, final>>

\* Font and context set-up, the watermark text, the pitch and the range of
\* the loops; the loops start at y := startY, x := startX.
Setup ==
    /\ pc = "setup"
    /\ watermarkText' = WatermarkText(username)
    /\ tx' = StartOf(canvasSize)
    /\ ty' = StartOf(canvasSize)
    /\ pc' = "tile"
    /\ UNCHANGED <<username, screenWidth, screenHeight, watermarkConfig,
                   canvasSize, img, anchors, draws, covered, rcArgs, dst, rx,
                   ry, visits, writes, gaps, rotateCalls, final>>

\* Mutant of DrawsAt: the text drawn at every anchor.
DrawsAlways(deg, size, x, y) == TRUE

\* Whether the anchor (x, y) gets its text drawn.
DrawsAt(deg, size, x, y) == OnCanvas(deg, size, x, y)

\* One iteration of the inner loop: the anchor (x, y), then x += spacingX.
TileStep ==
    /\ pc = "tile"
    /\ ty < EndOf(canvasSize)
    /\ tx < EndOf(canvasSize)
    /\ ~Degenerate \/ Len(anchors) < MaxStall
    /\ anchors' = Append(anchors, <<tx, ty>>)
    /\ IF DrawsAt(watermarkConfig.angle, canvasSize, tx, ty)
       THEN LET pt == DrawPoint(watermarkConfig.angle, canvasSize, tx, ty)
            IN  /\ img' = DrawString(img, pt)
                /\ draws' = Append(draws, pt)
                /\ covered' = covered \cup Footprint(pt, canvasSize)
       ELSE /\ draws' = Append(draws, <<>>)
            /\ UNCHANGED <<img, covered>>
    /\ tx' = tx + Pitch(watermarkConfig.spacingX)
    /\ UNCHANGED <<pc, username, watermarkText, screenWidth, screenHeight,
                   watermarkConfig, canvasSize, ty, rcArgs, dst, rx, ry,
                   visits, writes, gaps, rotateCalls, final>>

\* The inner loop ends (x >= endX): y += spacingY, x := startX.
RowEnd ==
    /\ pc = "tile"
    /\ ty < EndOf(canvasSize)
    /\ tx >= EndOf(canvasSize)
    /\ ty' = ty + Pitch(watermarkConfig.spacingY)
    /\ tx' = StartOf(canvasSize)
    /\ UNCHANGED <<pc, username, watermarkText, screenWidth, screenHeight,
                   watermarkConfig, canvasSize, img, anchors, draws, covered,
                   rcArgs, dst, rx, ry, visits, writes, gaps, rotateCalls,
                   final>>

\* The outer loop ends (y >= endY):
\* rotateAndCrop(img, watermarkConfig.imageRotation, width, height) is called.
TileExit ==
    /\ pc = "tile"
    /\ ty >= EndOf(canvasSize)
    /\ rcArgs' = [img          |-> img,
                  angle        |-> watermarkConfig.imageRotation,
                  targetWidth  |-> screenWidth,
                  targetHeight |-> screenHeight]
    /\ rotateCalls' = rotateCalls + 1
    /\ pc' = "rc_call"
    /\ UNCHANGED <<username, watermarkText, screenWidth, screenHeight,
                   watermarkConfig, canvasSize, img, tx, ty, anchors, draws,
                   covered, dst, rx, ry, visits, writes, gaps, final>>

\* final := the image rotateAndCrop returned; return final.
Finish ==
    /\ pc = "rc_ret"
    /\ final' = dst
    /\ pc' = "done"
    /\ UNCHANGED <<username, watermarkText, screenWidth, screenHeight,
                   watermarkConfig, canvasSize, img, tx, ty, anchors, draws,
                   covered, rcArgs, dst, rx, ry, visits, writes, gaps,
                   rotateCalls>>

(***************************************************************************)
(* Specifications                                                          *)
(***************************************************************************)
Spacings == (-1)..MaxSpacing

\* The configurations tried.  The skew angle is read in the tiling loop only
\* and the rotation in rotateAndCrop only, so each is varied with the other
\* at 0.
Configs ==
    {c \in [angle : Angles, imageRotation : Angles,
            spacingX : Spacings, spacingY : Spacings] :
        c.angle = 0 \/ c.imageRotation = 0}

\* The state of everything a call has not touched yet.
Untouched ==
    /\ watermarkText = <<>>
    /\ canvasSize = 0
    /\ img = NoImage
    /\ tx = 0 /\ ty = 0
    /\ anchors = <<>> /\ draws = <<>> /\ covered = {}
    /\ dst = NoImage
    /\ rx = 0 /\ ry = 0
    /\ visits = <<>> /\ writes = <<>> /\ gaps = {}
    /\ rotateCalls = 0
    /\ final = NoImage

\* main calls createWatermarkImage(currentUser.Username) once the screen size
\* is known.
Init ==
    /\ pc = "entry"
    /\ username = <<"d", "\\", "u">>
    /\ screenWidth \in 1..MaxDim
    /\ screenHeight \in 1..MaxDim
    /\ watermarkConfig \in Configs
    /\ rcArgs = NoArgs
    /\ Untouched

Next ==
    \/ Alloc
    \/ Clear
    \/ Setup
    \/ TileStep
    \/ RowEnd
    \/ TileExit
    \/ RCEnter
    \/ RCPixel
    \/ RCReturn
    \/ Finish

Spec == Init /\ [][Next]_vars

(***************************************************************************)
(* rotateAndCrop on its own: any canvas, any target size.                  *)
(***************************************************************************)
DefaultConfig == [angle |-> 0, imageRotation |-> 320, spacingX |-> 250, spacingY |-> 125]

Fills == {"tagged", "sparse"}

\* A canvas whose pixels all differ ("tagged"), and one in which every
\* second pixel is transparent ("sparse").
Canvas(w, h, fill) ==
    [w |-> w, h |-> h,
     pix |-> [q \in Pixels(w, h) |->
                IF fill = "sparse" /\ (q[1] + q[2]) % 2 = 1
                THEN 0
                ELSE 1 + q[1] + w * q[2]]]

InitRC ==
    /\ pc = "rc_call"
    /\ username = <<>>
    /\ screenWidth = 0
    /\ screenHeight = 0
    /\ watermarkConfig = DefaultConfig
    /\ \E cw \in 1..MaxCanvas, ch \in 1..MaxCanvas, fill \in Fills :
         \E deg \in Angles, tw \in 1..MaxTarget, th \in 1..MaxTarget :
            rcArgs = [img          |-> Canvas(cw, ch, fill),
                      angle        |-> deg,
                      targetWidth  |-> tw,
                      targetHeight |-> th]
    /\ Untouched

NextRC ==
    \/ RCEnter
    \/ RCPixel
    \/ RCReturn

SpecRC == InitRC /\ [][NextRC]_vars

(***************************************************************************)
(* The watermark text on its own: any account name.                        *)
(***************************************************************************)
RECURSIVE NamesOfLen(_)
NamesOfLen(n) ==
    IF n = 0 THEN {<<>>}
    ELSE {Append(s, c) : s \in NamesOfLen(n - 1), c \in Alphabet}

Names == UNION {NamesOfLen(n) : n \in 0..MaxNameLen}

InitName ==
    /\ pc = "name_in"
    /\ username \in Names
    /\ screenWidth = 0
    /\ screenHeight = 0
    /\ watermarkConfig = DefaultConfig
    /\ rcArgs = NoArgs
    /\ Untouched

\* watermarkText := fmt.Sprintf("CompanyName %s%s", extractUsername(username), spaces)
MakeText ==
    /\ pc = "name_in"
    /\ watermarkText' = WatermarkText(username)
    /\ pc' = "name_out"
    /\ UNCHANGED <<username, screenWidth, screenHeight, watermarkConfig,
                   canvasSize, img, tx, ty, anchors, draws, covered, rcArgs,
                   dst, rx, ry, visits, writes, gaps, rotateCalls, final>>

NextName == MakeText

SpecName == InitName /\ [][NextName]_vars

(***************************************************************************)
(* The canvas size on its own: any screen size.                            *)
(***************************************************************************)
InitSize ==
    /\ pc = "size_in"
    /\ username = <<>>
    /\ \E d \in ((1..MaxSide) \X (1..MaxSide)) \cup {<<1920, 1080>>} :
          screenWidth = d[1] /\ screenHeight = d[2]
    /\ watermarkConfig = DefaultConfig
    /\ rcArgs = NoArgs
    /\ Untouched

\* canvasSize := int(math.Sqrt(float64(width*width+height*height))) * 5 / 4
SizeCanvas ==
    /\ pc = "size_in"
    /\ canvasSize' = CanvasSide(screenWidth, screenHeight)
    /\ pc' = "size_out"
    /\ UNCHANGED <<username, watermarkText, screenWidth, screenHeight,
                   watermarkConfig, img, tx, ty, anchors, draws, covered,
                   rcArgs, dst, rx, ry, visits, writes, gaps, rotateCalls,
                   final>>

NextSize == SizeCanvas

SpecSize == InitSize /\ [][NextSize]_vars

(***************************************************************************)
(* Claims                                                                  *)
(***************************************************************************)
InLoop == pc = "tile"

AfterLoop == pc \in {"rc_call", "rc_loop", "rc_ret", "done"}

DegenerateSpacing == watermarkConfig.spacingX <= 0 \/ watermarkConfig.spacingY <= 0

\* C1: with spacingX <= 0 or spacingY <= 0 createWatermarkImage rejects the
\* configuration before the tiling loop is entered and before any DrawString
\* call: the loop is never entered, no anchor is visited, nothing is drawn.
C1_DegenerateSpacingRejected ==
    DegenerateSpacing =>
        /\ ~InLoop /\ ~AfterLoop
        /\ anchors = <<>>
        /\ \A i \in 1..Len(draws) : draws[i] = <<>>

\* The smallest k with k >= sqrt(n) * 5/4, that is 16 k^2 >= 25 n.
CeilSide(n) ==
    CHOOSE k \in 0..(2 * IntSqrt(n) + 2) :
        /\ 16 * k * k >= 25 * n
        /\ k = 0 \/ 16 * (k - 1) * (k - 1) < 25 * n

C3_CropAtHalfDifference ==
    (pc = "rc_ret" /\ rcArgs.angle = 0) =>
        \A q \in Pixels(rcArgs.targetWidth, rcArgs.targetHeight) :
            dst.pix[q] =
                At(rcArgs.img,
                   <<q[1] + rcArgs.img.w \div 2 - rcArgs.targetWidth \div 2,
                     q[2] + rcArgs.img.h \div 2 - rcArgs.targetHeight \div 2>>)

\* C3 as amended: with angle 0 every destination pixel (x, y) equals the
\* canvas pixel at (x + floor((canvas.width - final.width) / 2),
\* y + floor((canvas.height - final.height) / 2)), transparent when that
\* position is outside the canvas.
C3_CropAtFloorOffset ==
    (pc = "rc_ret" /\ rcArgs.angle = 0) =>
        \A q \in Pixels(rcArgs.targetWidth, rcArgs.targetHeight) :
            dst.pix[q] =
                At(rcArgs.img,
                   <<q[1] + (rcArgs.img.w - rcArgs.targetWidth) \div 2,
                     q[2] + (rcArgs.img.h - rcArgs.targetHeight) \div 2>>)

\* An even canvas under an odd target, cropped at angle 0 with a pixel copied.
C3_Witness ==
    /\ pc = "rc_ret" /\ rcArgs.angle = 0
    /\ rcArgs.img.w % 2 = 0 /\ rcArgs.targetWidth % 2 = 1
    /\ rcArgs.img.w > rcArgs.targetWidth
    /\ \E q \in Pixels(rcArgs.targetWidth, rcArgs.targetHeight) : dst.pix[q] # 0

\* C4: on the canvas createWatermarkImage sizes, every destination pixel of
\* rotateAndCrop has its source point inside the canvas, for every positive
\* target size and every angle: no pixel is skipped for falling outside.
C4_TargetInsideCanvas ==
    (pc \in {"rc_loop", "rc_ret", "done"}) => gaps = {}

\* C5: DrawString is called for an anchor exactly when its rotated and
\* translated position is inside [0, canvasSize) on both axes, and every
\* point drawn at has integer coordinates in 0..canvasSize-1.
C5_DrawsOnlyOnCanvas ==
    /\ Len(draws) = Len(anchors)
    /\ \A i \in 1..Len(draws) :
          /\ draws[i] # <<>> <=>
                OnCanvas(watermarkConfig.angle, canvasSize, anchors[i][1], anchors[i][2])
          /\ draws[i] # <<>> =>
                /\ draws[i][1] \in 0..(canvasSize - 1)
                /\ draws[i][2] \in 0..(canvasSize - 1)

\* Some anchor was drawn at and some anchor was skipped.
C5_Witness ==
    /\ \E i \in 1..Len(draws) : draws[i] # <<>>
    /\ \E i \in 1..Len(draws) : draws[i] = <<>>

\* C6: rotateAndCrop's result is exactly targetWidth x targetHeight; every
\* destination pixel is visited once and written at most once; a pixel whose
\* source point is inside the canvas holds the canvas pixel at the truncated
\* source coordinates, which are valid indices; every other pixel is
\* transparent; the canvas passed in is not modified.
C6_ResampleOnce ==
    (pc \in {"rc_loop", "rc_ret"}) =>
        /\ dst.w = rcArgs.targetWidth /\ dst.h = rcArgs.targetHeight
        /\ DOMAIN dst.pix = Pixels(rcArgs.targetWidth, rcArgs.targetHeight)
        /\ \E fill \in Fills : rcArgs.img = Canvas(rcArgs.img.w, rcArgs.img.h, fill)
        /\ \A q \in Pixels(rcArgs.targetWidth, rcArgs.targetHeight) :
              /\ visits[q] <= 1
              /\ pc = "rc_ret" => visits[q] = 1
              /\ writes[q] <= visits[q]
              /\ (visits[q] = 1 /\ InSource(rcArgs, q[1], q[2])) =>
                    /\ SourcePixel(rcArgs, q[1], q[2]) \in Pixels(rcArgs.img.w, rcArgs.img.h)
                    /\ dst.pix[q] = rcArgs.img.pix[SourcePixel(rcArgs, q[1], q[2])]
                    /\ writes[q] = 1
              /\ (visits[q] = 0 \/ ~InSource(rcArgs, q[1], q[2])) =>
                    /\ dst.pix[q] = 0
                    /\ writes[q] = 0

\* A finished call with a copied pixel and a pixel left transparent because
\* its source point was outside.
C6_Witness ==
    /\ pc = "rc_ret"
    /\ \E q \in Pixels(rcArgs.targetWidth, rcArgs.targetHeight) : dst.pix[q] # 0
    /\ gaps # {}

IsLabelChar(c) == c # "\\" /\ c # "@"

\* The label inside the watermark text: between "CompanyName " and the spaces.
Label == SubSeq(watermarkText, 2, Len(watermarkText) - spaceCount)

\* C7: the user label in the watermark text holds no backslash and no '@'
\* part, whatever the account name, also for 'domain\name@domain'.
C7_LabelStripped ==
    pc = "name_out" => \A i \in 1..Len(Label) : IsLabelChar(Label[i])

\* C8 as claimed: for every canvas and target size, the result for angle 360
\* is pixel for pixel the result for angle 0.
C8_PeriodicEverywhere ==
    (pc = "rc_ret" /\ rcArgs.angle = 360) =>
        dst = RotateAndCropResult([rcArgs EXCEPT !.angle = 0])

\* No source coordinate is a whole number: canvas and target differ by an odd
\* number of pixels on each axis.
OffGrid ==
    /\ (rcArgs.img.w - rcArgs.targetWidth) % 2 = 1
    /\ (rcArgs.img.h - rcArgs.targetHeight) % 2 = 1

\* C8 as amended: the result for angle 360 is pixel for pixel the result for
\* angle 0 whenever no source coordinate is a whole number, that is when
\* canvas and target differ by an odd number of pixels in width and in height;
\* at a whole-numbered source coordinate the floating-point residue of
\* sin(2 pi) may move the sample to the neighbouring pixel or across the edge.
C8_PeriodicOffGrid ==
    (pc = "rc_ret" /\ rcArgs.angle = 360 /\ OffGrid) =>
        dst = RotateAndCropResult([rcArgs EXCEPT !.angle = 0])

C8_Witness ==
    /\ pc = "rc_ret" /\ rcArgs.angle = 360 /\ OffGrid
    /\ rcArgs.targetHeight > 1
    /\ \E q \in Pixels(rcArgs.targetWidth, rcArgs.targetHeight) : dst.pix[q] # 0

NothingDrawn == \A i \in 1..Len(draws) : draws[i] = <<>>

\* C9: before the first DrawString call every pixel of the canvas is there
\* and fully transparent, and from then on a canvas pixel has nonzero alpha
\* only if some DrawString call covered it.
C9_TransparentUntilDrawn ==
    (pc \in {"setup", "tile"} \/ AfterLoop) =>
        /\ DOMAIN img.pix = Pixels(canvasSize, canvasSize)
        /\ NothingDrawn => \A q \in Pixels(canvasSize, canvasSize) : img.pix[q] = 0
        /\ \A q \in Pixels(canvasSize, canvasSize) : img.pix[q] # 0 => q \in covered

\* The loop is running, something was drawn and something is still transparent.
C9_Witness ==
    /\ InLoop
    /\ \E q \in Pixels(canvasSize, canvasSize) : img.pix[q] # 0
    /\ \E q \in Pixels(canvasSize, canvasSize) : img.pix[q] = 0

\* The number of anchors start, start + pitch, ... below end.
CountBelow(start, end, pitch) == (end - start - 1) \div pitch + 1

\* Where the loop stands: rows finished, and columns finished in this row.
LoopPosition ==
    LET px    == (watermarkConfig.spacingX * 4) \div 3
        py    == (watermarkConfig.spacingY * 4) \div 3
        start == -(canvasSize \div 2)
        end   == (canvasSize * 3) \div 2
        nx    == CountBelow(start, end, px)
    IN  ((ty - start) \div py) * (nx + 1) + ((tx - start) \div px)

\* The anchors visited are the first ones of the grid, rows outside and
\* columns inside, and all of it once the loop has ended.
C10_GridVisited ==
    (watermarkConfig.spacingX >= 1 /\ watermarkConfig.spacingY >= 1
        /\ (InLoop \/ AfterLoop)) =>
        LET px    == (watermarkConfig.spacingX * 4) \div 3
            py    == (watermarkConfig.spacingY * 4) \div 3
            start == -(canvasSize \div 2)
            end   == (canvasSize * 3) \div 2
            nx    == CountBelow(start, end, px)
            ny    == CountBelow(start, end, py)
        IN  /\ px >= 1 /\ py >= 1
            /\ Len(anchors) <= nx * ny
            /\ \A i \in 1..Len(anchors) :
                  anchors[i] = <<start + ((i - 1) % nx) * px,
                                 start + ((i - 1) \div nx) * py>>
            /\ InLoop => (rotateCalls = 0 /\ LoopPosition <= ny * (nx + 1))
            /\ AfterLoop => (Len(anchors) = nx * ny /\ rotateCalls = 1)

\* A step that stays in the loop moves it one position on.
C10_LoopAdvances ==
    (watermarkConfig.spacingX >= 1 /\ watermarkConfig.spacingY >= 1
        /\ InLoop /\ InLoop') => LoopPosition' = LoopPosition + 1

\* C10: with spacingX >= 1 and spacingY >= 1 the pitch spacing*4/3 is at
\* least 1 on each axis; the loop visits exactly the anchors
\* -canvasSize/2 + k * pitch below canvasSize*3/2, rows outside and columns
\* inside, each once; every step of the loop moves it one position on among
\* finitely many, so it ends, and rotateAndCrop is then called exactly once.
C10_TilingVisitsGridAndEnds == [](C10_GridVisited) /\ [][C10_LoopAdvances]_vars

\* A finished call whose loop visited several rows and several columns with
\* a pitch that the factor 4/3 changed.
C10_Witness ==
    /\ pc = "done" /\ rotateCalls = 1
    /\ watermarkConfig.spacingX = 3 /\ watermarkConfig.spacingY = 1
    /\ Len(anchors) > 4

====
